---- MODULE Spec2Model ----
(***************************************************************************)
(* Verification model of the agentic applications of ai-on-eks:            *)
(*   - agentic-idp: the document-verification graph (agentic_idp.py,       *)
(*     exteral_service.py, storage.py, decision.py);                       *)
(*   - strandsdk_agentic_rag_opensearch: the POST /query handler           *)
(*     (src/server.py).                                                    *)
(*                                                                         *)
(* Texts are modelled as sequences of lexemes: a lexeme is a digit, a      *)
(* punctuation character, a whitespace character or a fixed multi-         *)
(* character word of the text (such as the quoted key "confidence_score"). *)
(* The regular expressions and parsers of the code are operators over such *)
(* sequences.  Decimal numbers are integers counted in hundredths.         *)
(***************************************************************************)
EXTENDS Integers, Sequences, FiniteSets, TLC

(***************************************************************************)
(* Bounds of the model.                                                    *)
(***************************************************************************)
\* number of fragments a reflection text is built from
MaxFrags == 2
\* number of fragments a place name is built from
MaxPlaceFrags == 3
\* number of fragments a text of the vision model is built from
MaxVisionFrags == 1
\* number of characters or runs a question of a request is built from
MaxQuestionLen == 2
\* number of requests the server is sent
MaxQueries == 2
\* number of queries the supervisor answers
MaxSearchQueries == 2
\* number of tool calls the filesystem server is sent
MaxToolCalls == 2

(***************************************************************************)
(* Program constants.                                                      *)
(***************************************************************************)
\* agentic_idp.py:327  confidence_score < 0.75, in hundredths
Threshold == 75
\* agentic_idp.py:190  max_attempts = 3
max_attempts == 3
\* start_tavily_server.py:90  web search when RAG relevance is low (<0.3)
RelevanceThreshold == 30

(***************************************************************************)
(* Lexemes of a reflection text.                                           *)
(***************************************************************************)
KeyCS  == "\"confidence_score\""
KeyMsg == "\"message\""
Quote  == "\""
LBrace == "{"
RBrace == "}"
Colon  == ":"
Comma  == ","
Dot    == "."
Minus  == "-"
Space  == " "
Newline == "\n"
WhiteSpace == {Space, Newline}
ThinkOpen  == "<think>"
ThinkClose == "</think>"
\* the markdown fences (three backquotes, written here with apostrophes)
FenceJson  == "'''json"
Fence      == "'''"
Word   == "score"
Null   == "null"
NaN    == "NaN"

Digits == {"0", "1", "4", "5", "7", "9"}

DigitVal(c) ==
    CASE c = "0" -> 0 [] c = "1" -> 1 [] c = "4" -> 4
      [] c = "5" -> 5 [] c = "7" -> 7 [] c = "9" -> 9

\* \w at the first / the last character of a lexeme
StartsWordChar(c) == c \in Digits \cup {Word, Null, NaN}
EndsWordChar(c)   == c \in Digits \cup {Word, Null, NaN, FenceJson}

\* the answer the reflection prompt asks for (line 168):
\* { "confidence_score": <v>, "message": "<m>" }
Obj(v, m) ==
    <<LBrace, KeyCS, Colon, Space>> \o v
        \o <<Comma, Space, KeyMsg, Colon, Space, Quote>> \o m \o <<Quote, RBrace>>

(***************************************************************************)
(* Values a confidence score can take in Python.                           *)
(***************************************************************************)
None       == [kind |-> "none", val |-> 0]
Num(v)     == [kind |-> "num",  val |-> v]
NotANumber == [kind |-> "nan",  val |-> 0]
StrValue   == [kind |-> "str",  val |-> 0]

(***************************************************************************)
(* str methods.                                                            *)
(***************************************************************************)
RECURSIVE LStrip(_)
LStrip(s) == IF s # <<>> /\ Head(s) \in WhiteSpace THEN LStrip(Tail(s)) ELSE s

RECURSIVE RStrip(_)
RStrip(s) ==
    IF s # <<>> /\ s[Len(s)] \in WhiteSpace THEN RStrip(SubSeq(s, 1, Len(s) - 1)) ELSE s

\* str.strip()
Strip(s) == RStrip(LStrip(s))

\* x in s, for a one-lexeme x
Contains(s, x) == \E i \in 1..Len(s) : s[i] = x

\* s.replace(x, ""), for a one-lexeme x
Remove(s, x) == SelectSeq(s, LAMBDA c : c # x)

\* s.split(x)[-1], for a one-lexeme x
LastPart(s, x) ==
    IF ~Contains(s, x) THEN s
    ELSE LET k == CHOOSE i \in 1..Len(s) :
                      s[i] = x /\ \A j \in (i + 1)..Len(s) : s[j] # x
         IN  SubSeq(s, k + 1, Len(s))

\* the least index of S, a non-empty set of integers
Least(S) == CHOOSE i \in S : \A j \in S : i <= j

\* the end of the run of lexemes of set C that starts at i (i - 1 when empty)
RECURSIVE RunEnd(_, _, _)
RunEnd(s, i, C) ==
    IF i <= Len(s) /\ s[i] \in C THEN RunEnd(s, i + 1, C) ELSE i - 1

\* float() of digits d1 [. d2], in hundredths
RECURSIVE IntOf(_)
IntOf(d) == IF d = <<>> THEN 0
            ELSE 10 * IntOf(SubSeq(d, 1, Len(d) - 1)) + DigitVal(d[Len(d)])

FracOf(d) ==
    IF Len(d) = 0 THEN 0
    ELSE IF Len(d) = 1 THEN 10 * DigitVal(d[1])
    ELSE 10 * DigitVal(d[1]) + DigitVal(d[2])

Float(d1, d2) == 100 * IntOf(d1) + FracOf(d2)

(***************************************************************************)
(* json.loads of a text t that starts with { and ends with } and holds no  *)
(* other brace (the texts json_pattern matches).  The result is            *)
(* [ok, cs]: ok is FALSE on JSONDecodeError, cs is                         *)
(* reflection_result.get("confidence_score").                              *)
(***************************************************************************)
SkipWs(t, i) == RunEnd(t, i, WhiteSpace) + 1

\* the index where the JSON string starting at i ends, 0 when there is none
StringEnd(t, i) ==
    IF t[i] \in {KeyCS, KeyMsg} THEN i
    ELSE IF t[i] # Quote THEN 0
    ELSE LET Q == {j \in (i + 1)..Len(t) : t[j] \in {Quote, KeyCS, KeyMsg}}
         IN  IF Q = {} THEN 0
             ELSE IF t[Least(Q)] = Quote THEN Least(Q) ELSE 0

\* the JSON number starting at i: -?(0|[1-9][0-9]*)(\.[0-9]+)?
JsonNumber(t, i) ==
    LET neg  == t[i] = Minus
        a    == IF neg THEN i + 1 ELSE i
    IN  IF a > Len(t) \/ t[a] \notin Digits THEN [end |-> 0, v |-> None]
        ELSE LET ie == IF t[a] = "0" THEN a ELSE RunEnd(t, a, Digits)
                 fe == IF ie + 1 <= Len(t) /\ t[ie + 1] = Dot
                          THEN RunEnd(t, ie + 2, Digits) ELSE 0
                 hasFrac == fe >= ie + 2
                 mag == Float(SubSeq(t, a, ie),
                              IF hasFrac THEN SubSeq(t, ie + 2, fe) ELSE <<>>)
             IN  [end |-> IF hasFrac THEN fe ELSE ie,
                  v   |-> Num(IF neg THEN 0 - mag ELSE mag)]

JsonValue(t, i) ==
    IF t[i] = Null THEN [end |-> i, v |-> None]
    ELSE IF t[i] = NaN THEN [end |-> i, v |-> NotANumber]
    ELSE IF t[i] \in {Quote, KeyCS, KeyMsg}
         THEN [end |-> StringEnd(t, i), v |-> StrValue]
    ELSE JsonNumber(t, i)

RECURSIVE JsonMembers(_, _, _)
JsonMembers(t, i, cs) ==
    LET k  == SkipWs(t, i)
        ke == StringEnd(t, k)
    IN  IF ke = 0 THEN [ok |-> FALSE, cs |-> None]
        ELSE LET c == SkipWs(t, ke + 1)
             IN  IF t[c] # Colon THEN [ok |-> FALSE, cs |-> None]
                 ELSE LET pv == JsonValue(t, SkipWs(t, c + 1))
                      IN  IF pv.end = 0 THEN [ok |-> FALSE, cs |-> None]
                          ELSE LET a   == SkipWs(t, pv.end + 1)
                                   cs2 == IF t[k] = KeyCS THEN pv.v ELSE cs
                               IN  IF a = Len(t) THEN [ok |-> TRUE, cs |-> cs2]
                                   ELSE IF t[a] = Comma
                                        THEN JsonMembers(t, a + 1, cs2)
                                   ELSE [ok |-> FALSE, cs |-> None]

JsonLoads(t) ==
    IF SkipWs(t, 2) = Len(t) THEN [ok |-> TRUE, cs |-> None]
    ELSE JsonMembers(t, 2, None)

(***************************************************************************)
(* The regular expressions of agentic_idp.py.                              *)
(***************************************************************************)
\* the index of the first brace after i, 0 when there is none
NextBrace(s, i) ==
    LET B == {j \in (i + 1)..Len(s) : s[j] \in {LBrace, RBrace}}
    IN  IF B = {} THEN 0 ELSE Least(B)

\* json_pattern matches at i: \{[^{}]*"confidence_score"[^{}]*"message"[^{}]*\}
JsonPatternAt(s, i) ==
    /\ s[i] = LBrace
    /\ LET c == NextBrace(s, i)
       IN  /\ c # 0
           /\ s[c] = RBrace
           /\ \E p, q \in (i + 1)..(c - 1) :
                  p < q /\ s[p] = KeyCS /\ s[q] = KeyMsg

\* re.search(json_pattern, s).group(), <<>> when there is no match
json_match(s) ==
    LET M == {i \in 1..Len(s) : JsonPatternAt(s, i)}
    IN  IF M = {} THEN <<>> ELSE SubSeq(s, Least(M), NextBrace(s, Least(M)))

\* [0-9]*\.?[0-9]+ at n: [ok, v], v the float of the text matched
ScoreNumber(s, n) ==
    LET e1 == RunEnd(s, n, Digits)
        e2 == IF e1 + 1 <= Len(s) /\ s[e1 + 1] = Dot
                 THEN RunEnd(s, e1 + 2, Digits) ELSE 0
    IN  IF e2 >= e1 + 2
           THEN [ok |-> TRUE,
                 v  |-> Float(SubSeq(s, n, e1), SubSeq(s, e1 + 2, e2))]
        ELSE IF e1 >= n
           THEN [ok |-> TRUE, v |-> Float(SubSeq(s, n, e1), <<>>)]
        ELSE [ok |-> FALSE, v |-> 0]

\* score_pattern matches at i: "confidence_score":\s*([0-9]*\.?[0-9]+)
ScorePatternAt(s, i) ==
    /\ s[i] = KeyCS
    /\ i + 1 <= Len(s)
    /\ s[i + 1] = Colon
    /\ ScoreNumber(s, SkipWs(s, i + 2)).ok

\* float(re.search(score_pattern, s).group(1)), None when there is no match
score_match(s) ==
    LET M == {i \in 1..Len(s) : ScorePatternAt(s, i)}
    IN  IF M = {} THEN None
        ELSE Num(ScoreNumber(s, SkipWs(s, Least(M) + 2)).v)

\* \b before the word character at p, \b after the word character at e
BoundaryBefore(s, p) == p = 1 \/ ~EndsWordChar(s[p - 1])
BoundaryAfter(s, e)  == e = Len(s) \/ ~StartsWordChar(s[e + 1])

\* number_pattern at p: \b(0\.[0-9]+|1\.0+|0)\b, alternatives in order
NumberAt(s, p) ==
    LET dot == p + 1 <= Len(s) /\ s[p + 1] = Dot
        e1  == IF dot THEN RunEnd(s, p + 2, Digits) ELSE 0
        e2  == IF dot THEN RunEnd(s, p + 2, {"0"}) ELSE 0
    IN  IF ~(s[p] \in Digits /\ BoundaryBefore(s, p))
           THEN [ok |-> FALSE, v |-> 0]
        ELSE IF s[p] = "0" /\ e1 >= p + 2 /\ BoundaryAfter(s, e1)
           THEN [ok |-> TRUE, v |-> Float(<<"0">>, SubSeq(s, p + 2, e1))]
        ELSE IF s[p] = "1" /\ e2 >= p + 2 /\ BoundaryAfter(s, e2)
           THEN [ok |-> TRUE, v |-> 100]
        ELSE IF s[p] = "0" /\ BoundaryAfter(s, p)
           THEN [ok |-> TRUE, v |-> 0]
        ELSE [ok |-> FALSE, v |-> 0]

\* the first num of re.findall(number_pattern, s) with 0.0 <= num <= 1.0
first_number(s) ==
    LET M == {p \in 1..Len(s) :
                 NumberAt(s, p).ok /\ 0 <= NumberAt(s, p).v
                                   /\ NumberAt(s, p).v <= 100}
    IN  IF M = {} THEN None ELSE Num(NumberAt(s, Least(M)).v)

(***************************************************************************)
(* route_after_reflection, statement by statement.                         *)
(***************************************************************************)
\* lines 266-276: strip, cut the thinking, remove the markdown fences
CleanMessage(last) ==
    LET c0 == Strip(last)
        c1 == IF Contains(c0, ThinkOpen) /\ Contains(c0, ThinkClose)
                 THEN Strip(LastPart(c0, ThinkClose)) ELSE c0
    IN  Strip(Remove(Remove(c1, FenceJson), Fence))

\* lines 282-294, approach 1: the complete JSON object
Approach1(cs, cleaned) ==
    LET m == json_match(cleaned)
    IN  IF m # <<>> /\ JsonLoads(m).ok THEN JsonLoads(m).cs ELSE cs

\* approach 2 without its guard "if confidence_score is None"
Approach2Unguarded(cs, cleaned) ==
    IF score_match(cleaned) # None THEN score_match(cleaned) ELSE cs

\* lines 296-301, approach 2: the key and its value
Approach2(cs, cleaned) ==
    IF cs = None THEN score_match(cleaned) ELSE cs

\* lines 309-320, approach 3: any decimal number
Approach3(cs, cleaned) ==
    IF cs = None THEN first_number(cleaned) ELSE cs

\* confidence_score < 0.75 raises TypeError for a str
Raises(cs) == cs.kind = "str"

\* the threshold test with the comparison outside the try block
DecideUnhandled(cs) ==
    IF cs = None THEN "human_approval"
    ELSE IF Raises(cs) THEN "raised"
    ELSE IF cs.kind = "num" /\ cs.val < Threshold THEN "human_approval"
    ELSE "automatic_approval"

\* lines 322-343: the threshold test, and the handler of the exception
Decide(cs) ==
    IF cs = None THEN "human_approval"
    ELSE IF Raises(cs) THEN "human_approval"
    ELSE IF cs.kind = "num" /\ cs.val < Threshold THEN "human_approval"
    ELSE "automatic_approval"

\* route_after_reflection(state) for the content of the last message
route_after_reflection(last) ==
    LET c == CleanMessage(last)
    IN  Decide(Approach3(Approach2(Approach1(None, c), c), c))

(***************************************************************************)
(* verify_place_of_birth (exteral_service.py).  A place name is a sequence *)
(* of words, commas and spaces.                                            *)
(***************************************************************************)
\* str.lower() of one lexeme
LowerOf(w) ==
    CASE w = "Armidale" -> "armidale" [] w = "And" -> "and"
      [] w = "New" -> "new"           [] w = "England" -> "england"
      [] w = "Hospital" -> "hospital" [] w = "Royal" -> "royal"
      [] w = "North" -> "north"       [] w = "Shore" -> "shore"
      [] w = "Westmead" -> "westmead" [] w = "South" -> "south"
      [] w = "Wales" -> "wales"       [] w = "NSW" -> "nsw"
      [] w = "Australia" -> "australia" [] w = "Medical" -> "medical"
      [] w = "Clinic" -> "clinic"   [] w = "Birth" -> "birth"
      [] w = "Place of Birth" -> "place of birth"
      [] OTHER -> w

\* str.lower()
Lower(s) == [i \in 1..Len(s) |-> LowerOf(s[i])]

\* pat occurs in s at index i
OccursAt(s, pat, i) ==
    /\ i + Len(pat) - 1 <= Len(s)
    /\ \A k \in 1..Len(pat) : s[i + k - 1] = pat[k]

\* pat in s
IsIn(pat, s) == \E i \in 1..(Len(s) + 1) : OccursAt(s, pat, i)

\* s.replace(pat, ""), for a non-empty pat
RECURSIVE Replace(_, _)
Replace(s, pat) ==
    IF s = <<>> THEN <<>>
    ELSE IF OccursAt(s, pat, 1)
         THEN Replace(SubSeq(s, Len(pat) + 1, Len(s)), pat)
    ELSE <<Head(s)>> \o Replace(Tail(s), pat)

\* lines 42-75: known_hospitals, in the order of the dict
HospitalKeys ==
    << <<"armidale", Space, "and", Space, "new", Space, "england", Space, "hospital">>,
       <<"royal", Space, "north", Space, "shore", Space, "hospital">>,
       <<"westmead", Space, "hospital">> >>

HospitalInfo ==
    << [official_name |-> "Armidale and New England Hospital",
        location |-> "Armidale, New South Wales, Australia",
        type |-> "Public Hospital", status |-> "Active"],
       [official_name |-> "Royal North Shore Hospital",
        location |-> "St Leonards, New South Wales, Australia",
        type |-> "Public Hospital", status |-> "Active"],
       [official_name |-> "Westmead Hospital",
        location |-> "Westmead, New South Wales, Australia",
        type |-> "Public Hospital", status |-> "Active"] >>

HospitalIndex == 1..Len(HospitalKeys)

\* lines 82-89: the location suffixes, in the order they are removed
LocationSuffixes ==
    << <<Comma, Space, "armidale">>,
       <<Comma, Space, "new", Space, "south", Space, "wales">>,
       <<Comma, Space, "nsw">>,
       <<Comma, Space, "australia">> >>

RECURSIVE RemoveSuffixes(_, _)
RemoveSuffixes(s, k) ==
    IF k > Len(LocationSuffixes) THEN s
    ELSE RemoveSuffixes(IF IsIn(LocationSuffixes[k], s)
                           THEN Replace(s, LocationSuffixes[k]) ELSE s, k + 1)

\* lines 78-89: normalized_place
NormalizePlace(place_name) == RemoveSuffixes(Strip(Lower(place_name)), 1)

\* the exact-match test written as a substring test
ExactKeysContained(normalized) ==
    {h \in HospitalIndex : IsIn(HospitalKeys[h], normalized)}

\* line 92: normalized_place in known_hospitals
ExactKeys(normalized) ==
    {h \in HospitalIndex : HospitalKeys[h] = normalized}

\* line 126: key in normalized_place or normalized_place in key
PartialKeys(normalized) ==
    {h \in HospitalIndex :
        IsIn(HospitalKeys[h], normalized) \/ IsIn(normalized, HospitalKeys[h])}

VerifiedResult(h, score) ==
    [place_verified |-> TRUE, confidence_score |-> score,
     verified_name |-> HospitalInfo[h].official_name,
     location |-> HospitalInfo[h].location,
     type |-> HospitalInfo[h].type,
     status |-> HospitalInfo[h].status,
     error |-> FALSE]

\* the not-found result with the score of a partial match
NotFoundResultScored ==
    [place_verified |-> FALSE, confidence_score |-> 90,
     verified_name |-> "", location |-> "", type |-> "",
     status |-> "Not found in verified database", error |-> FALSE]

\* lines 163-181
NotFoundResult ==
    [place_verified |-> FALSE, confidence_score |-> 20,
     verified_name |-> "", location |-> "", type |-> "",
     status |-> "Not found in verified database", error |-> FALSE]

\* lines 183-190
ErrorResult ==
    [place_verified |-> FALSE, confidence_score |-> 0,
     verified_name |-> "", location |-> "", type |-> "",
     status |-> "", error |-> TRUE]

NoResult ==
    [place_verified |-> FALSE, confidence_score |-> 0,
     verified_name |-> "", location |-> "", type |-> "",
     status |-> "", error |-> FALSE]

\* a place_name that is not a str: place_name.lower() raises
NotAStr == <<"<not a str>">>

\* verify_place_of_birth(place_name)
verify_place_of_birth(place_name) ==
    IF place_name = NotAStr THEN ErrorResult
    ELSE LET n == NormalizePlace(place_name)
         IN  IF ExactKeys(n) # {}
                THEN VerifiedResult(Least(ExactKeys(n)), 95)
             ELSE IF PartialKeys(n) # {}
                THEN VerifiedResult(Least(PartialKeys(n)), 90)
             ELSE NotFoundResult

(***************************************************************************)
(* call_external_service (exteral_service.py): the extraction of the place *)
(* of birth from the content of an AI message.                             *)
(***************************************************************************)
KeyPOB    == "\"place_of_birth\""
KeyName   == "\"name\""
PhrasePOB == "place of birth"
StatedAs  == "stated as"

\* the lexemes that hold a double quote; each starts and ends with it
HasQuote(c) == c \in {Quote, KeyPOB, KeyName}

\* the text between the quotes of a quoted key
InnerOf(c) == IF c = KeyPOB THEN "place_of_birth" ELSE "name"

\* [^".\n]
PlainChar(c) == ~HasQuote(c) /\ c \notin {Dot, Newline}

\* the end of the run of [^".\n] that starts at i (i - 1 when empty)
RECURSIVE PlainRunEnd(_, _)
PlainRunEnd(s, i) ==
    IF i <= Len(s) /\ PlainChar(s[i]) THEN PlainRunEnd(s, i + 1) ELSE i - 1

\* (?:Hospital|Medical|Centre) and Hospital, with re.IGNORECASE
IsFacilityWord(c) == LowerOf(c) \in {"hospital", "medical", "centre"}
IsHospitalWord(c) == LowerOf(c) = "hospital"

\* "birth" occurs in the lexeme, with re.IGNORECASE
HoldsBirth(c) == LowerOf(c) \in {"birth", PhrasePOB} \/ c = KeyPOB

\* the index of the first lexeme of set C after i, 0 when there is none
NextIn(s, i, C) ==
    LET B == {j \in (i + 1)..Len(s) : s[j] \in C}
    IN  IF B = {} THEN 0 ELSE Least(B)

NextQuote(s, i) ==
    LET B == {j \in (i + 1)..Len(s) : HasQuote(s[j])}
    IN  IF B = {} THEN 0 ELSE Least(B)

\* a match: [ok, group]
NoMatch     == [ok |-> FALSE, group |-> <<>>]
Matched(g)  == [ok |-> TRUE, group |-> g]

\* Method 1 at i: "place_of_birth":\s*"([^"]+)"
Method1At(s, i) ==
    IF ~(s[i] = KeyPOB /\ i + 1 <= Len(s) /\ s[i + 1] = Colon) THEN NoMatch
    ELSE LET q == SkipWs(s, i + 2)
         IN  IF q > Len(s) \/ ~HasQuote(s[q]) THEN NoMatch
             ELSE IF s[q] # Quote THEN Matched(<<InnerOf(s[q])>>)
             ELSE LET e == NextQuote(s, q)
                  IN  IF e > q + 1 THEN Matched(SubSeq(s, q + 1, e - 1))
                      ELSE NoMatch

\* the leftmost match of a pattern given by its match-at operator
FirstMatch(s, At(_, _)) ==
    LET M == {i \in 1..Len(s) : At(s, i).ok}
    IN  IF M = {} THEN NoMatch ELSE At(s, Least(M))

\* the words of a text, compared with re.IGNORECASE
WordsAt(s, i, words) ==
    /\ i + Len(words) - 1 <= Len(s)
    /\ \A k \in 1..Len(words) : LowerOf(s[i + k - 1]) = words[k]

\* <words>[,\s]*Armidale at i, group(0)
ThenArmidaleAt(s, i, words) ==
    IF ~WordsAt(s, i, words) THEN NoMatch
    ELSE LET a == RunEnd(s, i + Len(words), {Comma, Space, Newline}) + 1
         IN  IF a <= Len(s) /\ LowerOf(s[a]) = "armidale"
                THEN Matched(SubSeq(s, i, a)) ELSE NoMatch

\* hospital_patterns[0]: Armidale and New England Hospital[,\s]*Armidale
Pattern1At(s, i) ==
    ThenArmidaleAt(s, i, <<"armidale", Space, "and", Space, "new", Space,
                           "england", Space, "hospital">>)

\* hospital_patterns[1]: New England Hospital[,\s]*Armidale
Pattern2At(s, i) ==
    ThenArmidaleAt(s, i, <<"new", Space, "england", Space, "hospital">>)

\* hospital_patterns[2]:
\*   place of birth[^:]*:\s*"?([^".\n]+(?:Hospital|Medical|Centre)[^".\n]*)"?
Pattern3At(s, i) ==
    IF LowerOf(s[i]) # PhrasePOB \/ NextIn(s, i, {Colon}) = 0 THEN NoMatch
    ELSE LET c == NextIn(s, i, {Colon})
             w == SkipWs(s, c + 1)
             q == w <= Len(s) /\ s[w] = Quote
             g == IF q THEN w + 1 ELSE w
             e == PlainRunEnd(s, g)
         IN  IF \E j \in (g + 1)..e : IsFacilityWord(s[j])
                THEN Matched(SubSeq(s, g, e))
             ELSE IF /\ ~q
                     /\ w > c + 1
                     /\ s[w - 1] = Space
                     /\ w <= e
                     /\ IsFacilityWord(s[w])
                THEN Matched(SubSeq(s, w - 1, e))
             ELSE NoMatch

\* hospital_patterns[3]: stated as\s*"([^"]+Hospital[^"]*)"
Pattern4At(s, i) ==
    IF LowerOf(s[i]) # StatedAs THEN NoMatch
    ELSE LET q == SkipWs(s, i + 1)
         IN  IF q > Len(s) \/ s[q] # Quote THEN NoMatch
             ELSE LET e == NextQuote(s, q)
                  IN  IF e # 0 /\ \E j \in (q + 2)..(e - 1) : IsHospitalWord(s[j])
                         THEN Matched(SubSeq(s, q + 1, e - 1))
                      ELSE NoMatch

\* hospital_patterns[4]: birth[^:]*:\s*"?([^".\n]*Hospital[^".\n]*)"?
Pattern5At(s, i) ==
    IF ~HoldsBirth(s[i]) \/ NextIn(s, i, {Colon}) = 0 THEN NoMatch
    ELSE LET c == NextIn(s, i, {Colon})
             w == SkipWs(s, c + 1)
             q == w <= Len(s) /\ s[w] = Quote
             g == IF q THEN w + 1 ELSE w
             e == PlainRunEnd(s, g)
         IN  IF \E j \in g..e : IsHospitalWord(s[j])
                THEN Matched(SubSeq(s, g, e))
             ELSE NoMatch

\* re.sub(r'[,\s]*$', '', s)
RECURSIVE TrimTail(_)
TrimTail(s) ==
    IF s # <<>> /\ s[Len(s)] \in {Comma, Space, Newline}
       THEN TrimTail(SubSeq(s, 1, Len(s) - 1)) ELSE s

\* lines 242-247: the place a match of a hospital pattern gives
PlaceOf(m) == IF m.ok THEN TrimTail(Strip(m.group)) ELSE <<>>

\* lines 239-249: the patterns in order, the first that gives a place
Method2(content) ==
    LET p1 == PlaceOf(FirstMatch(content, Pattern1At))
        p2 == PlaceOf(FirstMatch(content, Pattern2At))
        p3 == PlaceOf(FirstMatch(content, Pattern3At))
        p4 == PlaceOf(FirstMatch(content, Pattern4At))
        p5 == PlaceOf(FirstMatch(content, Pattern5At))
    IN  IF p1 # <<>> THEN p1
        ELSE IF p2 # <<>> THEN p2
        ELSE IF p3 # <<>> THEN p3
        ELSE IF p4 # <<>> THEN p4
        ELSE p5

\* lines 214-252 for one item: <<>> when the item gives no place
ExtractFromItem(content) ==
    LET m1 == FirstMatch(content, Method1At)
    IN  IF m1.ok THEN m1.group ELSE Method2(content)

\* lines 209-252: the place of the first item that gives one
RECURSIVE ExtractPlace(_)
ExtractPlace(items) ==
    IF items = <<>> THEN <<>>
    ELSE IF ExtractFromItem(Head(items)) # <<>> THEN ExtractFromItem(Head(items))
    ELSE ExtractPlace(Tail(items))

\* lines 272-276: the result when no place of birth was found
NoPlaceResult ==
    [fields |-> {"verification_type", "error", "verification_notes"},
     input_data |-> <<>>, verification |-> NoResult]

\* the fields of the dict verify_place_of_birth returns
VerificationFields(v) ==
    IF v.error
       THEN {"place_verified", "confidence_score", "error", "verification_notes"}
    ELSE IF v.place_verified
       THEN {"place_verified", "confidence_score", "verification_result",
             "verification_notes"}
    ELSE {"place_verified", "confidence_score", "verification_result",
          "verification_notes", "risk_factors"}

\* the not-found branch calling verify_place_of_birth all the same
call_external_service_always_verifies(items) ==
    LET v == verify_place_of_birth(
                 IF ExtractPlace(items) = <<>> THEN NotAStr ELSE ExtractPlace(items))
    IN  [fields |-> {"verification_type", "input_data"} \cup VerificationFields(v),
         input_data |-> ExtractPlace(items), verification |-> v]

\* lines 195-280: call_external_service(text) for a list of message contents
call_external_service(items) ==
    LET place_of_birth == ExtractPlace(items)
    IN  IF place_of_birth # <<>>
           THEN LET v == verify_place_of_birth(place_of_birth)
                IN  [fields |-> {"verification_type", "input_data"}
                                   \cup VerificationFields(v),
                     input_data |-> place_of_birth, verification |-> v]
        ELSE NoPlaceResult

(***************************************************************************)
(* generation_node (agentic_idp.py): the content of its message around the *)
(* text the vision model returned.                                         *)
(***************************************************************************)
\* line 377: topic
Topic ==
    <<"Verify the authenticity of this", Space, "birth", Space,
      "certificate by analyzing the document information and validating the",
      Space, PhrasePOB, Space, "details", Dot>>

\* lines 136-141: structured_response
StructuredResponse(vision_json) ==
    <<"Birth", Space, "Certificate Analysis Request", Colon, Space>> \o Topic
      \o <<Newline, Newline, "Extracted", Space, "Birth", Space,
           "Certificate Data (JSON)", Colon, Newline>>
      \o vision_json
      \o <<Newline, Newline, "Analysis", Colon, Space, "Based on the extracted",
           Space, "birth", Space,
           "certificate information, I need to verify the authenticity of this document by validating the",
           Space, PhrasePOB, Space, "details", Dot, Space,
           "The extracted data shows the", Space, PhrasePOB, Space,
           "as specified in the JSON above, which will be verified against official",
           Space, "hospital", Space, "records and databases", Dot>>

(***************************************************************************)
(* The texts of the vision model: every concatenation of at most           *)
(* MaxVisionFrags of the fragments below.                                  *)
(***************************************************************************)
VisionPlaces ==
    { <<"Westmead", Space, "Hospital">>,
      <<"Westmead", Space, "Hospital", Comma, Space, "NSW">>,
      <<"Armidale", Space, "and", Space, "New", Space, "England", Space,
        "Hospital", Comma, Space, "Armidale">>,
      <<"Westmead", Space, "Clinic">>,
      <<"Hospital">>,
      <<Space>> }

\* {"name": "Jane", "place_of_birth": "<p>"}
VisionJson(p) ==
    <<LBrace, KeyName, Colon, Space, Quote, "Jane", Quote, Comma, Space,
      KeyPOB, Colon, Space, Quote>> \o p \o <<Quote, RBrace>>

\* {"place_of_birth" : "<p>"}
VisionJsonSpaced(p) ==
    <<LBrace, KeyPOB, Space, Colon, Space, Quote>> \o p \o <<Quote, RBrace>>

\* Place of Birth: <p>
VisionLabelled(p) == <<"Place of Birth", Colon, Space>> \o p \o <<Newline>>

\* stated as "<p>"
VisionStated(p) == <<StatedAs, Space, Quote>> \o p \o <<Quote, Dot>>

VisionFrags ==
    {VisionJson(p) : p \in VisionPlaces}
      \cup {VisionJsonSpaced(p) : p \in VisionPlaces}
      \cup {VisionLabelled(p) : p \in VisionPlaces}
      \cup {VisionStated(p) : p \in VisionPlaces}
      \cup VisionPlaces
      \cup { <<LBrace, KeyName, Colon, Space, Quote, "Jane", Quote, RBrace>>,
             <<LBrace, KeyPOB, Colon, Space, Quote, Quote, RBrace>> }

RECURSIVE VisionConcat(_)
VisionConcat(n) ==
    IF n = 0 THEN {<<>>}
    ELSE VisionConcat(n - 1)
           \cup {t \o f : t \in VisionConcat(n - 1), f \in VisionFrags}

VisionTexts == VisionConcat(MaxVisionFrags)

(***************************************************************************)
(* The nodes of the graph: messages, edges, reflection_node.               *)
(***************************************************************************)
HumanMessage(content) == [type |-> "human", content |-> content]
AIMessage(content)    == [type |-> "ai", content |-> content]

\* a messages key with no reducer: the update replaces the list
add_messages_overwrite(left, right) == right

\* decision.py line 37: messages: Annotated[list, add_messages]; the
\* messages a node returns carry no id, so each is appended to the list
add_messages(left, right) == left \o right

\* [msg.content for msg in state["messages"] if isinstance(msg, AIMessage)]
RECURSIVE AIContents(_)
AIContents(msgs) ==
    IF msgs = <<>> THEN <<>>
    ELSE IF Head(msgs).type = "ai"
         THEN <<Head(msgs).content>> \o AIContents(Tail(msgs))
    ELSE AIContents(Tail(msgs))

ResultsPrefix == <<"External Processing Results", Colon, Space>>

\* storage.py lines 48 and 73-75
StorageContent ==
    ResultsPrefix \o <<LBrace, "\"result\"", Colon, Space, "\"success\"", RBrace>>

\* the decimal text of one of the scores of verify_place_of_birth
ScoreText(score) ==
    CASE score = 95 -> <<"0", Dot, "9", "5">>
      [] score = 90 -> <<"0", Dot, "9">>
      [] score = 20 -> <<"0", Dot, "2">>
      [] OTHER      -> <<"0", Dot, "0">>

\* exteral_service.py lines 298-300: json.dumps(result, indent=2)
ServiceContent(result) ==
    ResultsPrefix \o <<LBrace, "\"verification_type\"">>
      \o (IF "input_data" \in result.fields
             THEN <<Comma, "\"input_data\"", Colon, Space, Quote>>
                    \o result.input_data \o <<Quote>>
             ELSE <<>>)
      \o (IF "place_verified" \in result.fields
             THEN <<Comma, "\"place_verified\"", Colon, Space,
                    IF result.verification.place_verified THEN "true" ELSE "false",
                    Comma, KeyCS, Colon, Space>>
                    \o ScoreText(result.verification.confidence_score)
             ELSE <<>>)
      \o (IF "error" \in result.fields THEN <<Comma, "\"error\"">> ELSE <<>>)
      \o <<RBrace>>

\* an edge list that leaves out the external verification
EdgeSkippingService(node) ==
    CASE node = "START"              -> "generate"
      [] node = "generate"           -> "store"
      [] node = "store"              -> "reflect"
      [] node = "external_process"   -> "reflect"
      [] node = "automatic_approval" -> "END"
      [] node = "human_approval"     -> "END"

\* agentic_idp.py lines 245-251: builder.add_edge
Edge(node) ==
    CASE node = "START"              -> "generate"
      [] node = "generate"           -> "store"
      [] node = "store"              -> "external_process"
      [] node = "external_process"   -> "reflect"
      [] node = "automatic_approval" -> "END"
      [] node = "human_approval"     -> "END"

\* a fallback whose score passes the threshold
FallbackResponseHigh ==
    Obj(<<"0", Dot, "9">>,
        <<"Unable to complete automated assessment due to processing error",
          Dot, Space, "Manual review recommended", Dot>>)

\* agentic_idp.py line 226: fallback_response
FallbackResponse ==
    Obj(<<"0", Dot, "5">>,
        <<"Unable to complete automated assessment due to processing error",
          Dot, Space, "Manual review recommended", Dot>>)

\* a validity test that looks for the two keys and skips json.loads
ValidReflectionKeysOnly(response_content) ==
    /\ Contains(response_content, KeyCS)
    /\ Contains(response_content, KeyMsg)

\* agentic_idp.py lines 202-214: the response holds the two keys, and the
\* first match of json_pattern is valid JSON
ValidReflection(response_content) ==
    /\ Contains(response_content, KeyCS)
    /\ Contains(response_content, KeyMsg)
    /\ json_match(response_content) # <<>>
    /\ JsonLoads(json_match(response_content)).ok

\* the texts the reflection model returns in a run of the graph
GraphResponses ==
    { Obj(<<"0", Dot, "9">>, <<Word>>),
      Obj(<<"0", Dot, "7", "4">>, <<Word>>),
      Obj(<<NaN>>, <<Word>>),
      <<Space>> \o Obj(<<"0", Dot, "7", "5">>, <<Word>>) \o <<Space>>,
      <<Word>>,
      <<"0", Dot, "9">>,
      \* "message" before "confidence_score"
      <<LBrace, KeyMsg, Colon, Space, Quote, Word, Quote, Comma, Space,
        KeyCS, Colon, Space, "0", Dot, "9", RBrace>>,
      \* an object json.loads rejects, then a well-formed one
      <<LBrace, KeyCS, Colon, Space, "0", Dot, "9", Space, KeyMsg, RBrace>>
        \o Obj(<<"0", Dot, "9">>, <<Word>>),
      \* thinking, then the answer
      <<ThinkOpen, Word, Space, "0", Dot, "9", ThinkClose>>
        \o Obj(<<"0", Dot, "5">>, <<Word>>),
      <<FenceJson>> \o Obj(<<"0", Dot, "9">>, <<Word>>) \o <<Fence>> }

(***************************************************************************)
(* The place names of the model: every concatenation of at most            *)
(* MaxPlaceFrags of the fragments below, and a value that is not a str.    *)
(***************************************************************************)
PlaceFrags ==
    { <<"Westmead", Space, "Hospital">>,
      <<"westmead", Space, "hospital">>,
      <<"Royal", Space, "North", Space, "Shore", Space, "Hospital">>,
      <<"Armidale", Space, "and", Space, "New", Space, "England", Space, "Hospital">>,
      <<"New", Space, "England", Space, "Hospital">>,
      <<"Hospital">>,
      <<"Clinic">>,
      <<Comma, Space, "Armidale">>,
      <<Comma, Space, "New", Space, "South", Space, "Wales">>,
      <<Comma, Space, "NSW">>,
      <<Comma, Space, "Australia">>,
      <<Comma>>,
      <<Space>> }

RECURSIVE PlaceTexts(_)
PlaceTexts(n) ==
    IF n = 0 THEN {<<>>}
    ELSE PlaceTexts(n - 1) \cup {t \o f : t \in PlaceTexts(n - 1), f \in PlaceFrags}

PlaceNames == PlaceTexts(MaxPlaceFrags) \cup {NotAStr}

(***************************************************************************)
(* The reflection texts of the model: every concatenation of at most       *)
(* MaxFrags of the fragments below.                                        *)
(***************************************************************************)
Frags ==
    {   \* well-formed objects
        Obj(<<"0", Dot, "7", "4">>, <<Word>>),
        Obj(<<"0", Dot, "7", "5">>, <<Word>>),
        Obj(<<"0", Dot, "9">>, <<Word>>),
        Obj(<<"1", Dot, "5">>, <<Word>>),
        Obj(<<Minus, "0", Dot, "5">>, <<Word>>),
        Obj(<<"9", "5">>, <<Word>>),
        Obj(<<NaN>>, <<Word>>),
        Obj(<<Null>>, <<Word, Space, "0", Dot, "9">>),
        Obj(<<Quote, "0", Dot, "9", Quote>>, <<Word>>),
        \* objects json.loads rejects
        Obj(<<Dot, "5">>, <<Word>>),
        Obj(<<"0", Dot, "9", Word>>, <<Word>>),
        <<LBrace, KeyCS, Colon, Space, "0", Dot, "9", Space, KeyMsg, RBrace>>,
        \* "message" before "confidence_score": json_pattern does not match
        <<LBrace, KeyMsg, Colon, Quote, Word, Quote, Comma,
          KeyCS, Colon, "0", Dot, "9", RBrace>>,
        \* the key and a value, no object
        <<KeyCS, Colon, Space, "0", Dot, "7", "5">>,
        <<KeyCS, Colon, "9", "5">>,
        <<KeyCS, Space, Colon, Space, "0", Dot, "9">>,
        \* bare text
        <<"0", Dot, "7", "4">>,
        <<"0", Dot, "9">>,
        <<"1", Dot, "0">>,
        <<"1", Dot, "5">>,
        <<"0">>,
        <<Word>>,
        <<Space>>,
        \* thinking and markdown
        <<ThinkOpen>>,
        <<ThinkClose>>,
        <<ThinkOpen, Word, Space, "0", Dot, "9", ThinkClose>>,
        <<FenceJson>>,
        <<Fence>>
    }

RECURSIVE Texts(_)
Texts(n) ==
    IF n = 0 THEN {<<>>}
    ELSE Texts(n - 1) \cup {t \o f : t \in Texts(n - 1), f \in Frags}

ReflectionTexts == Texts(MaxFrags)

(***************************************************************************)
(* State.                                                                  *)
(***************************************************************************)
VARIABLES
    \* route_after_reflection: its locals and its position
    last_message, cleaned_message, confidence_score, route, rpc,
    \* verify_place_of_birth: its argument, locals, result and position
    place_name, normalized_place, vresult, vpc,
    \* the graph: the node to run, state["messages"], the events of astream
    pc, messages, events,
    \* external_service_node: result
    service_result,
    \* reflection_node: attempt, response_content (and whether it is bound),
    \* the calls of the model, the prompts appended to translated, the
    \* return statement taken
    attempt, response_content, response_bound, llm_calls, prompts_added,
    reflect_return,
    \* the /query endpoint: the question of the last request, the HTTP status
    \* and the QueryResponse it was answered with, the number of queries each
    \* supervisor agent created so far has processed, the requests served
    question, http_status, body_status, body_response, agent_queries,
    requests,
    \* run_interactive_mode: whether its loop is running
    interactive,
    \* the supervisor and the Tavily server: the step of the query, the
    \* relevance of the retrieval (hundredths), TAVILY_API_KEY is set, the
    \* global tavily_client exists, the payload sent to the Tavily API, what
    \* web_search returned, its calls for this query, the source of the
    \* answer, the queries answered
    wpc, relevance, api_key, tavily_client, payload, search_response,
    web_search_calls, answer_source, answered,
    \* the filesystem server: what each path is, the last tool call, the
    \* class of the string it returned, the number of calls
    fs, fs_call, fs_result, fs_calls

rvars == <<last_message, cleaned_message, confidence_score, route, rpc>>
vvars == <<place_name, normalized_place, vresult, vpc>>
gvars == <<pc, messages, events, service_result, attempt, response_content,
           response_bound, llm_calls, prompts_added, reflect_return>>
svars == <<question, http_status, body_status, body_response, agent_queries,
           requests, interactive>>
wvars == <<wpc, relevance, api_key, tavily_client, payload, search_response,
           web_search_calls, answer_source, answered>>
fvars == <<fs, fs_call, fs_result, fs_calls>>
vars  == <<rvars, vvars, gvars, svars, wvars, fvars>>

\* the state of a function that is not running
RouterIdle ==
    /\ last_message = <<>>
    /\ cleaned_message = <<>>
    /\ confidence_score = None
    /\ route = "none"
    /\ rpc = "idle"

VerifyIdle ==
    /\ place_name = <<>>
    /\ normalized_place = <<>>
    /\ vresult = NoResult
    /\ vpc = "idle"

ReflectionIdle ==
    /\ attempt = 0
    /\ response_content = <<>>
    /\ response_bound = FALSE
    /\ llm_calls = 0
    /\ prompts_added = 0
    /\ reflect_return = "none"

\* the paths the tools are called with, under the working directory
Paths == {"d", "d/e", "d/e/g", "d/f", "h"}

\* no tool has been called
NoCall == [tool |-> "none", path |-> ""]

FilesystemIdle ==
    /\ fs = [p \in Paths |-> "absent"]
    /\ fs_call = NoCall
    /\ fs_result = "none"
    /\ fs_calls = 0

\* no payload has been sent
NoPayload == [sent |-> FALSE, max_results |-> 0]

SearchIdle ==
    /\ wpc = "idle"
    /\ relevance = 0
    /\ api_key = FALSE
    /\ tavily_client = FALSE
    /\ payload = NoPayload
    /\ search_response = "none"
    /\ web_search_calls = 0
    /\ answer_source = "none"
    /\ answered = 0

ServerIdle ==
    /\ question = <<>>
    /\ http_status = 0
    /\ body_status = "none"
    /\ body_response = <<>>
    /\ agent_queries = <<>>
    /\ requests = 0
    /\ interactive = "running"

GraphIdle ==
    /\ pc = "idle"
    /\ messages = <<>>
    /\ events = <<>>
    /\ service_result = NoPlaceResult
    /\ ReflectionIdle

(***************************************************************************)
(* SpecRouter: route_after_reflection on every reflection text.            *)
(***************************************************************************)
RouterInit ==
    /\ last_message \in ReflectionTexts
    /\ cleaned_message = <<>>
    /\ confidence_score = None
    /\ route = "none"
    /\ rpc = "clean"
    /\ VerifyIdle
    /\ GraphIdle
    /\ ServerIdle
    /\ SearchIdle
    /\ FilesystemIdle

\* lines 258-279
RClean ==
    /\ rpc = "clean"
    /\ cleaned_message' = CleanMessage(last_message)
    /\ confidence_score' = None
    /\ rpc' = "approach1"
    /\ UNCHANGED <<last_message, route>>
    /\ UNCHANGED <<vvars, gvars, svars, wvars, fvars>>

\* lines 282-294
RApproach1 ==
    /\ rpc = "approach1"
    /\ confidence_score' = Approach1(confidence_score, cleaned_message)
    /\ rpc' = "approach2"
    /\ UNCHANGED <<last_message, cleaned_message, route>>
    /\ UNCHANGED <<vvars, gvars, svars, wvars, fvars>>

\* lines 296-307
RApproach2 ==
    /\ rpc = "approach2"
    /\ confidence_score' = Approach2(confidence_score, cleaned_message)
    /\ rpc' = "approach3"
    /\ UNCHANGED <<last_message, cleaned_message, route>>
    /\ UNCHANGED <<vvars, gvars, svars, wvars, fvars>>

\* lines 309-320
RApproach3 ==
    /\ rpc = "approach3"
    /\ confidence_score' = Approach3(confidence_score, cleaned_message)
    /\ rpc' = "decide"
    /\ UNCHANGED <<last_message, cleaned_message, route>>
    /\ UNCHANGED <<vvars, gvars, svars, wvars, fvars>>

\* lines 322-343
RDecide ==
    /\ rpc = "decide"
    /\ route' = Decide(confidence_score)
    /\ rpc' = "returned"
    /\ UNCHANGED <<last_message, cleaned_message, confidence_score>>
    /\ UNCHANGED <<vvars, gvars, svars, wvars, fvars>>

RouterNext == RClean \/ RApproach1 \/ RApproach2 \/ RApproach3 \/ RDecide

SpecRouter == RouterInit /\ [][RouterNext]_vars

(***************************************************************************)
(* SpecVerify: verify_place_of_birth on every place name.                  *)
(***************************************************************************)
VerifyInit ==
    /\ place_name \in PlaceNames
    /\ normalized_place = <<>>
    /\ vresult = NoResult
    /\ vpc = "normalize"
    /\ RouterIdle
    /\ GraphIdle
    /\ ServerIdle
    /\ SearchIdle
    /\ FilesystemIdle

\* lines 78-89
VNormalize ==
    /\ vpc = "normalize"
    /\ place_name # NotAStr
    /\ normalized_place' = NormalizePlace(place_name)
    /\ vpc' = "lookup"
    /\ UNCHANGED <<place_name, vresult>>
    /\ UNCHANGED <<rvars, gvars, svars, wvars, fvars>>

\* lines 92-118: the exact match
VExactMatch ==
    /\ vpc = "lookup"
    /\ ExactKeys(normalized_place) # {}
    /\ vresult' = VerifiedResult(Least(ExactKeys(normalized_place)), 95)
    /\ vpc' = "returned"
    /\ UNCHANGED <<place_name, normalized_place>>
    /\ UNCHANGED <<rvars, gvars, svars, wvars, fvars>>

\* lines 119-153: the first hospital with a partial match
VPartialMatch ==
    /\ vpc = "lookup"
    /\ ExactKeys(normalized_place) = {}
    /\ PartialKeys(normalized_place) # {}
    /\ vresult' = VerifiedResult(Least(PartialKeys(normalized_place)), 90)
    /\ vpc' = "returned"
    /\ UNCHANGED <<place_name, normalized_place>>
    /\ UNCHANGED <<rvars, gvars, svars, wvars, fvars>>

\* lines 155-181
VNotFound ==
    /\ vpc = "lookup"
    /\ ExactKeys(normalized_place) = {}
    /\ PartialKeys(normalized_place) = {}
    /\ vresult' = NotFoundResult
    /\ vpc' = "returned"
    /\ UNCHANGED <<place_name, normalized_place>>
    /\ UNCHANGED <<rvars, gvars, svars, wvars, fvars>>

\* lines 183-190: the exception handler
VError ==
    /\ vpc = "normalize"
    /\ place_name = NotAStr
    /\ vresult' = ErrorResult
    /\ vpc' = "returned"
    /\ UNCHANGED <<place_name, normalized_place>>
    /\ UNCHANGED <<rvars, gvars, svars, wvars, fvars>>

VerifyNext == VNormalize \/ VExactMatch \/ VPartialMatch \/ VNotFound \/ VError

SpecVerify == VerifyInit /\ [][VerifyNext]_vars

(***************************************************************************)
(* SpecGraph: one run of the graph (run_agent).                            *)
(***************************************************************************)
GraphInit ==
    /\ pc = "START"
    /\ messages = <<HumanMessage(Topic)>>
    /\ events = <<>>
    /\ service_result = NoPlaceResult
    /\ ReflectionIdle
    /\ RouterIdle
    /\ VerifyIdle
    /\ ServerIdle
    /\ SearchIdle
    /\ FilesystemIdle

Frame == UNCHANGED <<rvars, vvars, svars, wvars, fvars>>
ReflectionUnchanged ==
    UNCHANGED <<attempt, response_content, response_bound, llm_calls,
                prompts_added, reflect_return>>

\* line 245: the edge from START
StartRun ==
    /\ pc = "START"
    /\ pc' = Edge("START")
    /\ UNCHANGED <<messages, events, service_result>>
    /\ ReflectionUnchanged
    /\ Frame

\* lines 107-143: the vision model answers
Generate ==
    /\ pc = "generate"
    /\ \E vision \in VisionTexts :
           messages' = add_messages(messages, <<AIMessage(StructuredResponse(Strip(vision)))>>)
    /\ events' = Append(events, "generate")
    /\ pc' = Edge("generate")
    /\ UNCHANGED service_result
    /\ ReflectionUnchanged
    /\ Frame

\* lines 111-130: the call of the vision model raises; the node has no
\* retry policy and the exception ends the run
GenerateRaises ==
    /\ pc = "generate"
    /\ pc' = "failed"
    /\ UNCHANGED <<messages, events, service_result>>
    /\ ReflectionUnchanged
    /\ Frame

\* storage.py lines 54-77
Store ==
    /\ pc = "store"
    /\ messages' = add_messages(messages, <<HumanMessage(StorageContent)>>)
    /\ events' = Append(events, "store")
    /\ pc' = Edge("store")
    /\ UNCHANGED service_result
    /\ ReflectionUnchanged
    /\ Frame

\* exteral_service.py lines 283-302
ExternalProcess ==
    /\ pc = "external_process"
    /\ service_result' = call_external_service(AIContents(messages))
    /\ messages' = add_messages(messages, <<HumanMessage(ServiceContent(service_result'))>>)
    /\ events' = Append(events, "external_process")
    /\ pc' = Edge("external_process")
    /\ ReflectionUnchanged
    /\ Frame

\* lines 191-212: the model answers with valid JSON; return
ReflectValid ==
    /\ pc = "reflect"
    /\ attempt < max_attempts
    /\ \E res \in GraphResponses :
           /\ ValidReflection(Strip(res))
           /\ response_content' = Strip(res)
    /\ response_bound' = TRUE
    /\ llm_calls' = llm_calls + 1
    /\ messages' = add_messages(messages, <<HumanMessage(response_content')>>)
    /\ events' = Append(events, "reflect")
    /\ reflect_return' = "valid"
    /\ pc' = "route"
    /\ UNCHANGED <<attempt, prompts_added, service_result>>
    /\ Frame

\* lines 216-220: no valid JSON before the last attempt; add the prompt, retry
ReflectRetry ==
    /\ pc = "reflect"
    /\ attempt < max_attempts - 1
    /\ \E res \in GraphResponses :
           /\ ~ValidReflection(Strip(res))
           /\ response_content' = Strip(res)
    /\ response_bound' = TRUE
    /\ llm_calls' = llm_calls + 1
    /\ prompts_added' = prompts_added + 1
    /\ attempt' = attempt + 1
    /\ UNCHANGED <<pc, messages, events, service_result, reflect_return>>
    /\ Frame

\* lines 217 and 229-230: no valid JSON on the last attempt; the loop ends
\* and the last response is returned
ReflectExhausted ==
    /\ pc = "reflect"
    /\ attempt = max_attempts - 1
    /\ \E res \in GraphResponses :
           /\ ~ValidReflection(Strip(res))
           /\ response_content' = Strip(res)
    /\ response_bound' = TRUE
    /\ llm_calls' = llm_calls + 1
    /\ attempt' = attempt + 1
    /\ messages' = add_messages(messages, <<HumanMessage(response_content')>>)
    /\ events' = Append(events, "reflect")
    /\ reflect_return' = "exhausted"
    /\ pc' = "route"
    /\ UNCHANGED <<prompts_added, service_result>>
    /\ Frame

\* lines 222-224: the call raises before the last attempt; next attempt
ReflectRaisesRetry ==
    /\ pc = "reflect"
    /\ attempt < max_attempts - 1
    /\ llm_calls' = llm_calls + 1
    /\ attempt' = attempt + 1
    /\ UNCHANGED <<pc, messages, events, service_result, response_content,
                   response_bound, prompts_added, reflect_return>>
    /\ Frame

\* lines 224-227: the call raises on the last attempt; return the fallback
ReflectFallback ==
    /\ pc = "reflect"
    /\ attempt = max_attempts - 1
    /\ llm_calls' = llm_calls + 1
    /\ messages' = add_messages(messages, <<HumanMessage(FallbackResponse)>>)
    /\ events' = Append(events, "reflect")
    /\ reflect_return' = "fallback"
    /\ pc' = "route"
    /\ UNCHANGED <<attempt, service_result, response_content, response_bound,
                   prompts_added>>
    /\ Frame

\* lines 345-348: the conditional edge
RouteAfterReflection ==
    /\ pc = "route"
    /\ pc' = route_after_reflection(messages[Len(messages)].content)
    /\ UNCHANGED <<messages, events, service_result>>
    /\ ReflectionUnchanged
    /\ Frame

\* decision.py lines 40-49
AutomaticApproval ==
    /\ pc = "automatic_approval"
    /\ messages' = add_messages(messages, <<HumanMessage(messages[Len(messages)].content)>>)
    /\ events' = Append(events, "automatic_approval")
    /\ pc' = Edge("automatic_approval")
    /\ UNCHANGED service_result
    /\ ReflectionUnchanged
    /\ Frame

\* decision.py lines 51-60
HumanApproval ==
    /\ pc = "human_approval"
    /\ messages' = add_messages(messages, <<HumanMessage(messages[Len(messages)].content)>>)
    /\ events' = Append(events, "human_approval")
    /\ pc' = Edge("human_approval")
    /\ UNCHANGED service_result
    /\ ReflectionUnchanged
    /\ Frame

GraphNext ==
    \/ StartRun \/ Generate \/ GenerateRaises \/ Store \/ ExternalProcess
    \/ ReflectValid \/ ReflectRetry \/ ReflectExhausted
    \/ ReflectRaisesRetry \/ ReflectFallback
    \/ RouteAfterReflection \/ AutomaticApproval \/ HumanApproval

SpecGraph == GraphInit /\ [][GraphNext]_vars

\* the five ways one execution of reflection_node goes on
ReflectStep ==
    \/ ReflectValid
    \/ ReflectRetry
    \/ ReflectExhausted
    \/ ReflectRaisesRetry
    \/ ReflectFallback

\* Every call of a hosted model returns or raises, and the runtime then runs
\* the next node: each node is weakly fair.  A node is enabled exactly when
\* pc names it; for external_process, reflect and the router the fairness
\* WF_vars(A) is written out as []<>~enabled \/ []<><<A>>_vars.
SpecGraphFair ==
    /\ GraphInit
    /\ [][GraphNext]_vars
    /\ WF_vars(StartRun)
    /\ WF_vars(Generate \/ GenerateRaises)
    /\ WF_vars(Store)
    /\ WF_vars(AutomaticApproval)
    /\ WF_vars(HumanApproval)
    /\ ([]<>(pc # "external_process") \/ []<><<ExternalProcess>>_vars)
    /\ ([]<>(pc # "reflect") \/ []<><<ReflectStep>>_vars)
    /\ ([]<>(pc # "route") \/ []<><<RouteAfterReflection>>_vars)

(***************************************************************************)
(* POST /query (server.py).  A text is a sequence of characters; a run of  *)
(* many characters is one lexeme.                                          *)
(***************************************************************************)
\* a run of 1000 characters "a", and a run of 4000
Run1000 == "a*1000"
Run4000 == "a*4000"

\* len(text)
RECURSIVE CharLen(_)
CharLen(s) ==
    IF s = <<>> THEN 0
    ELSE (CASE Head(s) = Run1000 -> 1000
            [] Head(s) = Run4000 -> 4000
            [] OTHER -> 1) + CharLen(Tail(s))

\* the questions sent: short ones, blank ones, and two around max_length
RECURSIVE QuestionsOfLen(_)
QuestionsOfLen(n) ==
    IF n = 0 THEN {<<>>}
    ELSE {Append(q, c) : q \in QuestionsOfLen(n - 1), c \in {Space, "a"}}

Questions ==
    UNION {QuestionsOfLen(n) : n \in 0..MaxQuestionLen}
        \cup {<<Newline>>, <<Run1000>>, <<Run1000, "a">>}

\* QueryRequest.question: Field(max_length=1000)
QueryRequestValid(q) == CharLen(q) <= 1000

\* what fresh_agent(query) returns: None or an object, given by its str()
NoneResponse == <<"None">>
AgentResponses ==
    {NoneResponse, <<>>, <<Space>>, <<"a">>, <<Space, "a", Newline>>,
     <<Run4000>>, <<Run4000, "a">>}

\* str(e) of the exceptions the agent raises
AgentErrors ==
    {<<>>, <<"failed">>, <<"RuntimeError", Colon, Space, "failed">>,
     <<"asyncio", Space, "failed">>}

\* str(e) of HTTPException(400, "Question cannot be empty"): the status and
\* the detail, or nothing where the framework defines no __str__
HTTPExceptionTexts == {<<"400", Colon, Space, "Question cannot be empty">>, <<>>}

\* any(keyword in error_msg.lower() for keyword in [...])
IsAsyncRelated(error_msg) ==
    \E i \in 1..Len(error_msg) : error_msg[i] \in {"RuntimeError", "asyncio"}

\* the QueryResponse of the except branch
ErrorResponse(error_msg) ==
    <<"Error processing query: ">> \o
        (IF IsAsyncRelated(error_msg)
         THEN <<"Internal processing error (async-related)">>
         ELSE IF error_msg # <<>> THEN error_msg
         ELSE <<"Unknown error occurred">>)

\* response_str of the try branch
ResponseStr(response) ==
    LET r  == IF response = NoneResponse
              THEN <<"No response received from agent.">>
              ELSE response
        rs == IF Strip(r) = <<>>
              THEN <<"Agent completed processing but returned empty response.">>
              ELSE Strip(r)
    IN  IF CharLen(rs) > 4000
        THEN <<Head(rs)>> \o <<"... [Response truncated due to length]">>
        ELSE rs

\* The supervisor agents created so far, each given by the number of
\* queries it has processed (the length of its conversation history).
\* create_fresh_supervisor_agent() returns a new agent with no history.
create_fresh_supervisor_agent(agents) == Append(agents, 0)

\* agent(query) on the agent at index i
CallAgent(agents, i) == [agents EXCEPT ![i] = @ + 1]

\* the query goes to the module-level supervisor_agent, the first agent made
InvokeShared(agents) ==
    IF agents = <<>> THEN <<1>> ELSE CallAgent(agents, 1)

\* fresh_agent = create_fresh_supervisor_agent(); fresh_agent(query)
InvokeFresh(agents) ==
    LET made == create_fresh_supervisor_agent(agents)
    IN  CallAgent(made, Len(made))

ServerInit ==
    /\ ServerIdle
    /\ RouterIdle
    /\ VerifyIdle
    /\ GraphIdle
    /\ SearchIdle
    /\ FilesystemIdle

ServerFrame == UNCHANGED <<rvars, vvars, gvars, wvars, fvars, interactive>>

\* a question longer than max_length never reaches process_query
RequestInvalid(q) ==
    /\ requests < MaxQueries
    /\ ~QueryRequestValid(q)
    /\ question' = q
    /\ http_status' = 422
    /\ body_status' = "none"
    /\ body_response' = <<>>
    /\ requests' = requests + 1
    /\ UNCHANGED agent_queries
    /\ ServerFrame

\* process_query: the question is blank; HTTPException is raised inside the
\* try block and caught by "except Exception"
ProcessQueryEmpty(q, error_msg) ==
    /\ requests < MaxQueries
    /\ QueryRequestValid(q)
    /\ CharLen(Strip(q)) = 0
    /\ error_msg \in HTTPExceptionTexts
    /\ question' = q
    /\ http_status' = 200
    /\ body_status' = "error"
    /\ body_response' = ErrorResponse(error_msg)
    /\ requests' = requests + 1
    /\ UNCHANGED agent_queries
    /\ ServerFrame

\* process_query: a fresh agent answers the query
ProcessQuerySuccess(q, response) ==
    /\ requests < MaxQueries
    /\ QueryRequestValid(q)
    /\ CharLen(Strip(q)) # 0
    /\ question' = q
    /\ agent_queries' = InvokeFresh(agent_queries)
    /\ http_status' = 200
    /\ body_status' = "success"
    /\ body_response' = ResponseStr(response)
    /\ requests' = requests + 1
    /\ ServerFrame

\* process_query: the fresh agent raises
ProcessQueryAgentRaises(q, error_msg) ==
    /\ requests < MaxQueries
    /\ QueryRequestValid(q)
    /\ CharLen(Strip(q)) # 0
    /\ question' = q
    /\ agent_queries' = InvokeFresh(agent_queries)
    /\ http_status' = 200
    /\ body_status' = "error"
    /\ body_response' = ErrorResponse(error_msg)
    /\ requests' = requests + 1
    /\ ServerFrame

ServerNext ==
    \/ \E q \in Questions : RequestInvalid(q)
    \/ \E q \in Questions, e \in HTTPExceptionTexts : ProcessQueryEmpty(q, e)
    \/ \E q \in Questions, r \in AgentResponses : ProcessQuerySuccess(q, r)
    \/ \E q \in Questions, e \in AgentErrors : ProcessQueryAgentRaises(q, e)

SpecServer == ServerInit /\ [][ServerNext]_vars

(***************************************************************************)
(* main.py: run_interactive_mode and run_single_query.  They use the       *)
(* variables of the endpoint: question is the query handed to the agent,   *)
(* body_response the text printed or returned.                             *)
(***************************************************************************)
Run500 == "a*500"

\* query[:500] when len(query) > 500; the long questions are runs of "a"
Truncate500(query) == IF CharLen(query) > 500 THEN <<Run500>> ELSE query

\* user_input.lower() in ['exit', 'quit', 'bye']
ExitCommands == {<<"exit">>, <<"Quit">>, <<"bye">>}

\* what input() returns
UserInputs == Questions \cup {<<"exit">>, <<Space, "Quit", Newline>>}

\* response_str of run_interactive_mode
InteractiveResponseStr(response) ==
    LET r == IF response = NoneResponse
             THEN <<"No response received from agent.">>
             ELSE response
    IN  IF Strip(r) = <<>>
        THEN <<"Agent completed processing but returned empty response.">>
        ELSE Strip(r)

\* response_str of run_single_query: str(response), cut at 4000 characters
SingleResponseStr(response) ==
    IF CharLen(response) > 4000
    THEN <<Head(response)>> \o <<"... [Response truncated due to length]">>
    ELSE response

MainFrame == UNCHANGED <<rvars, vvars, gvars, wvars, fvars, http_status>>

\* an exit command, Ctrl+C or the end of the input ends the loop
InteractiveExit ==
    /\ interactive = "running"
    /\ interactive' = "exited"
    /\ UNCHANGED <<question, body_status, body_response, agent_queries, requests>>
    /\ MainFrame

\* an empty line: the loop asks again
InteractiveBlank(line) ==
    /\ interactive = "running"
    /\ requests < MaxQueries
    /\ Strip(line) = <<>>
    /\ question' = Strip(line)
    /\ body_status' = "none"
    /\ body_response' = <<"Please enter a question or type 'exit' to quit.">>
    /\ requests' = requests + 1
    /\ UNCHANGED <<agent_queries, interactive>>
    /\ MainFrame

\* one turn of the loop that reaches the agent, which answers or raises
InteractiveQuery(line, response, raised) ==
    /\ interactive = "running"
    /\ requests < MaxQueries
    /\ Strip(line) # <<>>
    /\ Strip(line) \notin ExitCommands
    /\ question' = Truncate500(Strip(line))
    /\ agent_queries' = InvokeFresh(agent_queries)
    /\ body_status' = IF raised THEN "error" ELSE "success"
    /\ body_response' = IF raised THEN <<"Error: ">> \o response
                        ELSE InteractiveResponseStr(response)
    /\ requests' = requests + 1
    /\ UNCHANGED interactive
    /\ MainFrame

\* run_single_query: config.validate_config() raises
SingleQueryInvalidConfig(query, error_msg) ==
    /\ requests < MaxQueries
    /\ question' = query
    /\ body_status' = "error"
    /\ body_response' = <<"Error processing query: ">> \o error_msg
    /\ requests' = requests + 1
    /\ UNCHANGED <<agent_queries, interactive>>
    /\ MainFrame

\* run_single_query: the agent answers or raises
SingleQuery(query, response, raised) ==
    /\ requests < MaxQueries
    /\ question' = Truncate500(query)
    /\ agent_queries' = InvokeFresh(agent_queries)
    /\ body_status' = IF raised THEN "error" ELSE "success"
    /\ body_response' = IF raised THEN <<"Error processing query: ">> \o response
                        ELSE SingleResponseStr(response)
    /\ requests' = requests + 1
    /\ UNCHANGED interactive
    /\ MainFrame

MainNext ==
    \/ InteractiveExit
    \/ \E l \in UserInputs : InteractiveBlank(l)
    \/ \E l \in UserInputs, r \in AgentResponses : InteractiveQuery(l, r, FALSE)
    \/ \E l \in UserInputs, e \in AgentErrors : InteractiveQuery(l, e, TRUE)
    \/ \E q \in Questions, e \in AgentErrors : SingleQueryInvalidConfig(q, e)
    \/ \E q \in Questions, r \in AgentResponses : SingleQuery(q, r, FALSE)
    \/ \E q \in Questions, e \in AgentErrors : SingleQuery(q, e, TRUE)

\* the three ways a query reaches a supervisor agent
QueriesNext == ServerNext \/ MainNext

SpecQueries == ServerInit /\ [][QueriesNext]_vars

(***************************************************************************)
(* The supervisor agent and the Tavily MCP server                          *)
(* (tavily_search_server.py).  The supervisor is modelled from its         *)
(* description: it retrieves from the knowledge base, and uses web_search  *)
(* when the relevance of the retrieval is low.                             *)
(***************************************************************************)
\* min(a, b)
Min(a, b) == IF a <= b THEN a ELSE b

\* relevance scores of a retrieval, in hundredths
Relevances == {0, 29, 30, 31, 100}

\* max_results as callers of web_search supply it
CallerMaxResults == {0 - 3, 0, 1, 5, 10, 11, 20, 25}

\* the relevance test with the bound included
NeedsWebSearchInclusive(r) == r <= RelevanceThreshold

\* the supervisor uses web search when RAG relevance is low (<0.3)
NeedsWebSearch(r) == r < RelevanceThreshold

\* web_search: max_results=min(max_results, 10)
web_search_max_results(max_results) == Min(max_results, 10)

\* TavilyClient.search: "max_results": min(max_results, 20)
PayloadMaxResults(max_results) == Min(max_results, 20)

SearchInit ==
    /\ wpc = "start"
    /\ relevance = 0
    /\ api_key \in BOOLEAN
    /\ tavily_client = FALSE
    /\ payload = NoPayload
    /\ search_response = "none"
    /\ web_search_calls = 0
    /\ answer_source = "none"
    /\ answered = 0
    /\ RouterIdle
    /\ VerifyIdle
    /\ GraphIdle
    /\ ServerIdle
    /\ FilesystemIdle

SearchFrame == UNCHANGED <<rvars, vvars, gvars, svars, fvars>>

\* the supervisor retrieves from the knowledge base for a new query
SupervisorRetrieve(r) ==
    /\ wpc = "start"
    /\ answered < MaxSearchQueries
    /\ relevance' = r
    /\ payload' = NoPayload
    /\ search_response' = "none"
    /\ web_search_calls' = 0
    /\ answer_source' = "none"
    /\ wpc' = "retrieved"
    /\ UNCHANGED <<api_key, tavily_client, answered>>
    /\ SearchFrame

\* high relevance: the answer comes from the knowledge base
SupervisorAnswerFromKnowledge ==
    /\ wpc = "retrieved"
    /\ ~NeedsWebSearch(relevance)
    /\ answer_source' = "knowledge_base"
    /\ answered' = answered + 1
    /\ wpc' = "start"
    /\ UNCHANGED <<relevance, api_key, tavily_client, payload, search_response,
                   web_search_calls>>
    /\ SearchFrame

\* web_search without TAVILY_API_KEY: get_tavily_client raises, nothing is
\* sent, the error response is returned
WebSearchNoKey(max_results) ==
    /\ wpc = "retrieved"
    /\ NeedsWebSearch(relevance)
    /\ ~tavily_client
    /\ ~api_key
    /\ search_response' = "error"
    /\ web_search_calls' = web_search_calls + 1
    /\ wpc' = "searched"
    /\ UNCHANGED <<relevance, api_key, tavily_client, payload, answer_source,
                   answered>>
    /\ SearchFrame

\* web_search: the payload is posted; the API answers, or the post raises
WebSearch(max_results, ok) ==
    /\ wpc = "retrieved"
    /\ NeedsWebSearch(relevance)
    /\ tavily_client \/ api_key
    /\ tavily_client' = TRUE
    /\ payload' = [sent |-> TRUE,
                   max_results |->
                       PayloadMaxResults(web_search_max_results(max_results))]
    /\ search_response' = IF ok THEN "results" ELSE "error"
    /\ web_search_calls' = web_search_calls + 1
    /\ wpc' = "searched"
    /\ UNCHANGED <<relevance, api_key, answer_source, answered>>
    /\ SearchFrame

\* the supervisor answers from what web_search returned
SupervisorAnswerFromWeb ==
    /\ wpc = "searched"
    /\ answer_source' = "web_search"
    /\ answered' = answered + 1
    /\ wpc' = "start"
    /\ UNCHANGED <<relevance, api_key, tavily_client, payload, search_response,
                   web_search_calls>>
    /\ SearchFrame

SearchNext ==
    \/ \E r \in Relevances : SupervisorRetrieve(r)
    \/ SupervisorAnswerFromKnowledge
    \/ \E n \in CallerMaxResults : WebSearchNoKey(n)
    \/ \E n \in CallerMaxResults, ok \in BOOLEAN : WebSearch(n, ok)
    \/ SupervisorAnswerFromWeb

SpecSearch == SearchInit /\ [][SearchNext]_vars

(***************************************************************************)
(* The filesystem MCP server (mcp_filesystem_server.py).  fs gives for     *)
(* each path whether it is absent, a file or a directory; the working      *)
(* directory, the parent "" of the top-level paths, always exists.         *)
(***************************************************************************)
\* path.parent
Parent(p) ==
    CASE p = "d/e/g" -> "d/e"
      [] p = "d/e" -> "d"
      [] p = "d/f" -> "d"
      [] OTHER -> ""

RECURSIVE Ancestors(_)
Ancestors(p) ==
    IF Parent(p) = "" THEN {} ELSE {Parent(p)} \cup Ancestors(Parent(p))

\* the entries of directory p
Entries(f, p) == {q \in Paths : Parent(q) = p /\ f[q] # "absent"}

\* what exists lies in a directory
ValidTree(f) ==
    \A p \in Paths :
        f[p] # "absent" => Parent(p) = "" \/ f[Parent(p)] = "dir"

FileSystems == {f \in [Paths -> {"absent", "file", "dir"}] : ValidTree(f)}

\* the outcome of a tool: the string returned and the file system left
Outcome(result, f) == [result |-> result, fs |-> f]

\* Path(p).mkdir(parents=True, exist_ok=True)
Mkdir(f, p) ==
    IF p = "" \/ f[p] = "dir" THEN Outcome("ok", f)
    ELSE IF f[p] = "file" \/ \E a \in Ancestors(p) : f[a] = "file"
    THEN Outcome("error", f)
    ELSE Outcome("ok", [q \in Paths |->
                          IF q = p \/ q \in Ancestors(p) THEN "dir" ELSE f[q]])

read_file(f, p, os_ok) ==
    IF f[p] = "absent" THEN Outcome("error_not_exist", f)
    ELSE IF f[p] # "file" THEN Outcome("error_not_a_file", f)
    ELSE IF os_ok THEN Outcome("content", f)
    ELSE Outcome("error_reading", f)

write_file(f, p, os_ok) ==
    LET made == Mkdir(f, Parent(p))
    IN  IF made.result # "ok" \/ ~os_ok THEN Outcome("error_writing", f)
        ELSE IF made.fs[p] = "dir" THEN Outcome("error_writing", made.fs)
        ELSE Outcome("written", [made.fs EXCEPT ![p] = "file"])

list_directory(f, p, os_ok) ==
    IF f[p] = "absent" THEN Outcome("error_not_exist", f)
    ELSE IF f[p] # "dir" THEN Outcome("error_not_a_directory", f)
    ELSE IF ~os_ok THEN Outcome("error_listing", f)
    ELSE IF Entries(f, p) = {} THEN Outcome("empty", f)
    ELSE Outcome("contents", f)

create_directory(f, p, os_ok) ==
    LET made == Mkdir(f, p)
    IN  IF made.result # "ok" \/ ~os_ok THEN Outcome("error_creating", f)
        ELSE Outcome("created", made.fs)

\* shutil.rmtree in place of rmdir
delete_path_rmtree(f, p, os_ok) ==
    IF f[p] = "absent" THEN Outcome("error_not_exist", f)
    ELSE IF f[p] = "file"
    THEN Outcome("deleted_file", [f EXCEPT ![p] = "absent"])
    ELSE Outcome("deleted_directory",
                 [q \in Paths |->
                    IF q = p \/ p \in Ancestors(q) THEN "absent" ELSE f[q]])

\* unlink for a file; rmdir for a directory, which raises OSError on a
\* directory with entries (or when the system refuses)
delete_path(f, p, os_ok) ==
    IF f[p] = "absent" THEN Outcome("error_not_exist", f)
    ELSE IF f[p] = "file"
    THEN IF os_ok THEN Outcome("deleted_file", [f EXCEPT ![p] = "absent"])
         ELSE Outcome("error_deleting", f)
    ELSE IF Entries(f, p) = {} /\ os_ok
    THEN Outcome("deleted_directory", [f EXCEPT ![p] = "absent"])
    ELSE Outcome("error_not_empty", f)

get_path_info(f, p, os_ok) ==
    IF f[p] = "absent" THEN Outcome("not_exist", f)
    ELSE IF os_ok THEN Outcome("info", f)
    ELSE Outcome("error_info", f)

FilesystemInit ==
    /\ fs \in FileSystems
    /\ fs_call = NoCall
    /\ fs_result = "none"
    /\ fs_calls = 0
    /\ RouterIdle
    /\ VerifyIdle
    /\ GraphIdle
    /\ ServerIdle
    /\ SearchIdle

\* a tool was called with path p and gave out
Called(tool, p, out) ==
    /\ fs_call' = [tool |-> tool, path |-> p]
    /\ fs_result' = out.result
    /\ fs' = out.fs
    /\ fs_calls' = fs_calls + 1
    /\ UNCHANGED <<rvars, vvars, gvars, svars, wvars>>

ReadFile(p, os_ok) ==
    /\ fs_calls < MaxToolCalls
    /\ Called("read_file", p, read_file(fs, p, os_ok))

WriteFile(p, os_ok) ==
    /\ fs_calls < MaxToolCalls
    /\ Called("write_file", p, write_file(fs, p, os_ok))

ListDirectory(p, os_ok) ==
    /\ fs_calls < MaxToolCalls
    /\ Called("list_directory", p, list_directory(fs, p, os_ok))

CreateDirectory(p, os_ok) ==
    /\ fs_calls < MaxToolCalls
    /\ Called("create_directory", p, create_directory(fs, p, os_ok))

DeletePath(p, os_ok) ==
    /\ fs_calls < MaxToolCalls
    /\ Called("delete_path", p, delete_path(fs, p, os_ok))

GetPathInfo(p, os_ok) ==
    /\ fs_calls < MaxToolCalls
    /\ Called("get_path_info", p, get_path_info(fs, p, os_ok))

FilesystemNext ==
    \/ \E p \in Paths, os_ok \in BOOLEAN : ReadFile(p, os_ok)
    \/ \E p \in Paths, os_ok \in BOOLEAN : WriteFile(p, os_ok)
    \/ \E p \in Paths, os_ok \in BOOLEAN : ListDirectory(p, os_ok)
    \/ \E p \in Paths, os_ok \in BOOLEAN : CreateDirectory(p, os_ok)
    \/ \E p \in Paths, os_ok \in BOOLEAN : DeletePath(p, os_ok)
    \/ \E p \in Paths, os_ok \in BOOLEAN : GetPathInfo(p, os_ok)

SpecFilesystem == FilesystemInit /\ [][FilesystemNext]_vars

(***************************************************************************)
(* Claims.                                                                 *)
(***************************************************************************)
\* s >= 0.75 and s < 0.75 as Python evaluates them for a float s
AtLeastThreshold(s) == s.kind = "num" /\ s.val >= Threshold
BelowThreshold(s)   == s.kind = "num" /\ s.val < Threshold

\* C1: for every reflection message from which a float confidence score s is
\* extracted, the router returns automatic_approval exactly when s >= 0.75
\* and human_approval exactly when s < 0.75.
C1_ThresholdRouting ==
    (rpc = "returned" /\ confidence_score.kind \in {"num", "nan"}) =>
        /\ route = "automatic_approval" <=> AtLeastThreshold(confidence_score)
        /\ route = "human_approval" <=> BelowThreshold(confidence_score)

\* C2: the confidence score compared against the threshold is always a
\* decimal number in [0, 1].
C2_ScoreInUnitInterval ==
    (rpc = "decide" /\ confidence_score # None) =>
        /\ confidence_score.kind = "num"
        /\ 0 <= confidence_score.val
        /\ confidence_score.val <= 100

\* the score of the first approach alone: the parsed JSON object's score
FirstApproachScore ==
    LET m == json_match(cleaned_message)
    IN  IF m # <<>> /\ JsonLoads(m).ok THEN JsonLoads(m).cs ELSE None

\* C3: the score used for routing is the JSON object's score when the first
\* approach produced one, the key-value match only when the first approach
\* produced none, and the first bare decimal only when both produced none.
C3_ApproachPriority ==
    rpc \in {"decide", "returned"} =>
        /\ FirstApproachScore # None => confidence_score = FirstApproachScore
        /\ (FirstApproachScore = None /\ score_match(cleaned_message) # None)
              => confidence_score = score_match(cleaned_message)
        /\ (FirstApproachScore = None /\ score_match(cleaned_message) = None)
              => confidence_score = first_number(cleaned_message)

\* a text where the lower-priority approaches find other scores than the
\* first one, and the first one's score was used
C3_Witness ==
    /\ rpc = "returned"
    /\ FirstApproachScore # None
    /\ score_match(cleaned_message) \notin {None, FirstApproachScore}
    /\ first_number(cleaned_message) \notin {None, FirstApproachScore}
    /\ confidence_score = FirstApproachScore

\* C5: route_after_reflection never raises: it returns one of the two
\* approval node names, and it returns human_approval whenever no score was
\* extracted or the comparison raised.
C5_FailSafe ==
    rpc = "returned" =>
        /\ route \in {"automatic_approval", "human_approval"}
        /\ (confidence_score = None \/ Raises(confidence_score))
              => route = "human_approval"

\* both fail-safe cases: a text with no score, and a score that is a string
C5_Witness ==
    /\ rpc = "returned"
    /\ Raises(confidence_score)
    /\ route = "human_approval"

\* C8: verify_place_of_birth returns place_verified = true with
\* confidence_score 0.95 exactly when the normalized place is a key of
\* known_hospitals, and then returns that key's record.
C8_ExactMatch ==
    vpc = "returned" =>
        LET n == NormalizePlace(place_name)
            K == {h \in HospitalIndex : HospitalKeys[h] = n}
        IN  /\ (vresult.place_verified /\ vresult.confidence_score = 95)
                  <=> (place_name # NotAStr /\ K # {})
            /\ (place_name # NotAStr /\ K # {}) =>
                  \A h \in K :
                      /\ vresult.verified_name = HospitalInfo[h].official_name
                      /\ vresult.location = HospitalInfo[h].location
                      /\ vresult.type = HospitalInfo[h].type
                      /\ vresult.status = HospitalInfo[h].status

\* an exact match that needed the whole normalisation
C8_Witness ==
    /\ vpc = "returned"
    /\ vresult.place_verified
    /\ vresult.confidence_score = 95
    /\ vresult.verified_name = "Westmead Hospital"
    /\ Strip(Lower(place_name)) # normalized_place
    /\ Lower(place_name) # place_name

\* C4: the nodes execute one at a time in the order generate, store,
\* external_process, reflect, then exactly one approval node, then END.
NodeOrder == <<"generate", "store", "external_process", "reflect">>
ApprovalNodes == {"automatic_approval", "human_approval"}

\* the number of nodes that have run when the graph is at pc
Position(p) ==
    CASE p = "START" -> 0 [] p = "generate" -> 0 [] p = "failed" -> 0
      [] p = "store" -> 1 [] p = "external_process" -> 2 [] p = "reflect" -> 3
      [] p = "route" -> 4 [] p \in ApprovalNodes -> 4 [] p = "END" -> 5

C4_NodeOrder ==
    /\ Len(events) = Position(pc)
    /\ \A i \in 1..Len(events) :
           IF i <= Len(NodeOrder) THEN events[i] = NodeOrder[i]
           ELSE events[i] \in ApprovalNodes

C4_Witness ==
    /\ pc = "END"
    /\ events = NodeOrder \o <<"automatic_approval">>

\* the response holds a brace-delimited JSON object with the two keys that
\* json.loads accepts, wherever it stands and whatever the order of its keys
HoldsParseableObject(s) ==
    \E i \in 1..Len(s) :
        /\ s[i] = LBrace
        /\ NextBrace(s, i) # 0
        /\ s[NextBrace(s, i)] = RBrace
        /\ LET t == SubSeq(s, i, NextBrace(s, i))
           IN  Contains(t, KeyCS) /\ Contains(t, KeyMsg) /\ JsonLoads(t).ok

\* the first span { ... } of the response that holds "confidence_score"
\* followed by "message" is valid JSON
FirstCandidateParses(s) ==
    json_match(s) # <<>> /\ JsonLoads(json_match(s)).ok

\* the content of the message reflection_node returned
ReflectionMessage == messages[Len(NodeOrder) + 1].content

C7_FallbackToHuman ==
    reflect_return = "fallback" =>
        /\ FirstCandidateParses(ReflectionMessage)
        /\ JsonLoads(json_match(ReflectionMessage)).cs = Num(50)
        /\ pc \in {"route", "human_approval", "END"}
        /\ pc = "END" => events[Len(events)] = "human_approval"

C7_Witness ==
    /\ reflect_return = "fallback"
    /\ pc = "END"
    /\ events[Len(events)] = "human_approval"

\* C9: call_external_service never raises; with no place of birth in the
\* AI messages its result has an "error" field and neither place_verified
\* nor confidence_score, and external_service_node appends exactly one
\* "External Processing Results" message before reflect runs.  The result
\* and the messages it was computed from are looked at when the node has
\* just returned.
JustProcessed == pc = "reflect" /\ llm_calls = 0

C9_NoPlaceIsAnError ==
    /\ pc = "failed" => events = <<>>
    /\ Len(events) = 3 => pc = "reflect"
    /\ JustProcessed =>
          /\ events[Len(events)] = "external_process"
          /\ Len(messages) = 4
          /\ messages[4].type = "human"
          /\ SubSeq(messages[4].content, 1, Len(ResultsPrefix)) = ResultsPrefix
          /\ ExtractPlace(AIContents(SubSeq(messages, 1, 3))) = <<>> =>
                /\ "error" \in service_result.fields
                /\ "place_verified" \notin service_result.fields
                /\ "confidence_score" \notin service_result.fields

C9_Witness ==
    /\ JustProcessed
    /\ ExtractPlace(AIContents(messages)) = <<>>
    /\ "error" \in service_result.fields
    /\ Len(messages) = 4

\* C10: a request whose question is empty or only whitespace is answered
\* with HTTP status 400 and detail "Question cannot be empty", and no
\* supervisor agent is invoked for it.
C10_EmptyQuestionRejected ==
    (requests > 0 /\ Strip(question) = <<>>) =>
        /\ http_status = 400
        /\ body_response = <<"Question cannot be empty">>
        /\ Len(agent_queries) < requests

C13_MaxResultsInRange ==
    payload.sent => payload.max_results >= 1 /\ payload.max_results <= 10

\* C14: delete_path on a directory with at least one entry leaves the
\* directory and all its entries in place and returns an error string;
\* whatever the tools are called with, a path disappears only by delete_path
\* on that path, and only if it was a file or a directory with no entry.
C14_NonEmptyDirectoryKept ==
    [][ /\ ( /\ fs_calls' # fs_calls
             /\ fs_call'.tool = "delete_path"
             /\ fs[fs_call'.path] = "dir"
             /\ Entries(fs, fs_call'.path) # {} )
           => fs' = fs /\ fs_result' = "error_not_empty"
        /\ \A p \in Paths :
             (fs[p] # "absent" /\ fs'[p] = "absent")
               => /\ fs_call' = [tool |-> "delete_path", path |-> p]
                  /\ fs[p] = "file" \/ Entries(fs, p) = {}
        /\ ValidTree(fs')
      ]_vars

\* delete_path was called on d, which holds the directory d/e and its file
C14_Witness ==
    /\ fs_call = [tool |-> "delete_path", path |-> "d"]
    /\ fs_result = "error_not_empty"
    /\ fs["d"] = "dir"
    /\ fs["d/e"] = "dir"
    /\ fs["d/e/g"] = "file"

\* the external verification did not verify the place of birth
NotVerified(result) ==
    \/ "place_verified" \notin result.fields
    \/ ~result.verification.place_verified

\* C15: a run whose external verification did not verify the place of birth
\* never executes automatic_approval, whatever the reflection model answers.
C15_UnverifiedNeverAutomatic ==
    (Len(events) >= 3 /\ NotVerified(service_result)) =>
        /\ pc # "automatic_approval"
        /\ \A i \in 1..Len(events) : events[i] # "automatic_approval"

\* C16: every run of the graph that starts eventually reaches END through
\* one approval node, given that each hosted-model call returns or raises.
C16_ReachesEnd ==
    (pc = "generate") ~>
        (pc = "END" /\ Len(events) = 5 /\ events[5] \in ApprovalNodes)

\* the score of the object reflection_node validated in the response
ValidatedScore(response) == JsonLoads(json_match(response)).cs

\* C17: when reflection_node accepted the message as holding valid JSON,
\* the first approach of route_after_reflection obtains the score from that
\* same object, and it is the score used for routing.
C17_ValidatedScoreIsRouted ==
    ( /\ rpc \in {"decide", "returned"}
      /\ last_message = Strip(last_message)
      /\ ValidReflection(last_message) )
        => /\ FirstApproachScore = ValidatedScore(last_message)
           /\ confidence_score = ValidatedScore(last_message)
           /\ confidence_score # None

\* the text after the last </think> of a message
AfterThinking(msg) == LastPart(Strip(msg), ThinkClose)

\* the score the three approaches extract from a text
ScoreFrom(text) ==
    LET c == CleanMessage(text)
    IN  Approach3(Approach2(Approach1(None, c), c), c)

\* C18: when the reflection message holds thinking terminated by </think>,
\* the score and the route are those of the text after the last </think>:
\* nothing that stands only inside the thinking determines the route.
C18_ThinkingNeverRoutes ==
    (rpc = "returned" /\ Contains(last_message, ThinkClose)) =>
        /\ confidence_score = ScoreFrom(AfterThinking(last_message))
        /\ route = Decide(ScoreFrom(AfterThinking(last_message)))

\* the known hospitals whose name is contained in the normalized place
NamedHospitals(place) ==
    {h \in HospitalIndex : IsIn(HospitalKeys[h], NormalizePlace(place))}

\* C19: verify_place_of_birth reports a partial match (place_verified =
\* true, confidence_score 0.90) only when the name of a known hospital is
\* contained in the normalized place, and a place that names no known
\* hospital is reported as place_verified = false with confidence 0.2.
C19_PartialMatchNamesHospital ==
    (vpc = "returned" /\ place_name # NotAStr) =>
        /\ (vresult.place_verified /\ vresult.confidence_score = 90)
              => NamedHospitals(place_name) # {}
        /\ NamedHospitals(place_name) = {}
              => (~vresult.place_verified /\ vresult.confidence_score = 20)

\* C20: in every result of verify_place_of_birth, place_verified is true
\* exactly when confidence_score >= 0.90; the only pairs are (true, 0.95),
\* (true, 0.90), (false, 0.2) and, on an internal error, (false, 0.0).
C20_VerifiedIffHighScore ==
    vpc = "returned" =>
        /\ vresult.place_verified <=> vresult.confidence_score >= 90
        /\ <<vresult.place_verified, vresult.confidence_score>>
              \in {<<TRUE, 95>>, <<TRUE, 90>>, <<FALSE, 20>>, <<FALSE, 0>>}
        /\ vresult.confidence_score = 0 <=> vresult.error
        /\ vresult.error <=> place_name = NotAStr

\* a partial match: the result at the boundary score 0.90
C20_Witness ==
    /\ vpc = "returned"
    /\ vresult.place_verified
    /\ vresult.confidence_score = 90
    /\ normalized_place # <<>>
    /\ ExactKeys(normalized_place) = {}

\* the verdict of a result
Verdict(r) == <<r.place_verified, r.confidence_score>>

\* the location suffixes, as a caller writes them
WrittenSuffixes ==
    { <<Comma, Space, "Armidale">>,
      <<Comma, Space, "New", Space, "South", Space, "Wales">>,
      <<Comma, Space, "NSW">>,
      <<Comma, Space, "Australia">> }

C21_CaseInvariant ==
    (vpc = "returned" /\ place_name # NotAStr) =>
        Verdict(verify_place_of_birth(Lower(place_name))) = Verdict(vresult)

C21_WhitespaceInvariant ==
    (vpc = "returned" /\ place_name # NotAStr) =>
        \A w \in WhiteSpace :
            /\ Verdict(verify_place_of_birth(<<w>> \o place_name)) = Verdict(vresult)
            /\ Verdict(verify_place_of_birth(place_name \o <<w>>)) = Verdict(vresult)

C21_SuffixInvariant ==
    (vpc = "returned" /\ place_name # NotAStr) =>
        \A x \in WrittenSuffixes :
            Verdict(verify_place_of_birth(place_name \o x)) = Verdict(vresult)

\* C21: the verdict of verify_place_of_birth (place_verified and
\* confidence_score) is unchanged by letter case, by leading or trailing
\* whitespace, and by appending one of the location suffixes ", Armidale",
\* ", New South Wales", ", NSW", ", Australia" to the place name.
C21_VerdictInvariant ==
    /\ C21_CaseInvariant
    /\ C21_WhitespaceInvariant
    /\ C21_SuffixInvariant

\* C22: each node execution adds exactly one message to the message list of
\* the run and leaves every earlier message unchanged; the instruction
\* prompts that reflection_node adds on retries never enter the list, and
\* reflection_node returns exactly one message on every path.
C22_OneMessagePerNode ==
    [][ /\ events' # events
           => /\ Len(events') = Len(events) + 1
              /\ Len(messages') = Len(messages) + 1
              /\ SubSeq(messages', 1, Len(messages)) = messages
        /\ events' = events => messages' = messages
        /\ prompts_added' # prompts_added
           => messages' = messages /\ pc' = "reflect"
        /\ (pc = "reflect" /\ pc' # "reflect")
           => /\ events' = Append(events, "reflect")
              /\ Len(messages') = Len(messages) + 1
              /\ messages'[Len(messages')].type = "human"
        /\ Len(messages') = Len(events') + 1
      ]_vars

\* reflection_node has returned after two retries, each with its prompt
C22_Witness ==
    /\ pc = "route"
    /\ prompts_added = max_attempts - 1
    /\ reflect_return = "exhausted"
    /\ Len(messages) = 5
    /\ messages[5] = HumanMessage(response_content)

====
